---- MODULE Spec2Model ----
(***************************************************************************)
(* Model of serverauditor_sshconfig/core/storage/driver.py: the three      *)
(* format Drivers, the DRIVERS registry and PersistentDict (construction   *)
(* with hydration, mapping mutations, sync/close), over a small POSIX file *)
(* system with inodes, a directory, and per-process open file handles.     *)
(*                                                                         *)
(* A file's content is a sequence of tokens (groups of bytes).  Each       *)
(* Driver's dump produces tokens and each Driver's load parses tokens, so  *)
(* a round trip or a cross-format detection is computed, not assumed.      *)
(***************************************************************************)
EXTENDS Integers, Sequences, FiniteSets, TLC

(* ------------------------------ bounds --------------------------------- *)
NumInodes == 4         \* inode table size (target, temp, unlinked-but-open)

Procs == {"p1", "p2"}                \* processes, one Store object each
Keys == {"k1", "k2"}                 \* str keys used by Set / initial entries
PyVersions == {2, 3}                 \* interpreters the six-based code runs on

(* Python values.  ty: "str", "num" (int), "obj" (picklable, not JSON-able, *)
(* e.g. a set).                                                            *)
Str(s) == [ty |-> "str", s |-> s]
Num(s) == [ty |-> "num", s |-> s]
Obj(s) == [ty |-> "obj", s |-> s]
NumTexts == {"1"}
Vals == {Str("a"), Obj("o")}          \* values used by Set

(* ------------------------------ tokens --------------------------------- *)
(* "txt": literal text s; "qstr": a JSON string literal "s"; "pkl": a      *)
(* pickled scalar of type ty; "op": a pickle opcode.                       *)
T(s) == [k |-> "txt", ty |-> "", s |-> s]
Q(s) == [k |-> "qstr", ty |-> "", s |-> s]
B(ty, s) == [k |-> "pkl", ty |-> ty, s |-> s]
Op(s) == [k |-> "op", ty |-> "", s |-> s]
NL == T("\n")
NUL == T("\\0")
IsBinary(tok) == tok.k \in {"pkl", "op"}

(* ------------------------- ordered mapping ----------------------------- *)
(* An OrderedDict is a sequence of <<key, value>> with distinct keys.      *)
HasKey(d, key) == \E i \in 1..Len(d) : d[i][1] = key
GetItem(d, key) == (CHOOSE i \in 1..Len(d) : d[i][1] = key)
Lookup(d, key) == d[GetItem(d, key)][2]
SetItem(d, key, v) ==
  IF HasKey(d, key)
    THEN [d EXCEPT ![GetItem(d, key)] = <<key, v>>]
    ELSE Append(d, <<key, v>>)
DelItem(d, key) == SelectSeq(d, LAMBDA e : e[1] # key)
AsMap(d) == {<<d[i][1], d[i][2]>> : i \in 1..Len(d)}

RECURSIVE Update(_, _)
Update(d, pairs) ==
  IF pairs = << >> THEN d
  ELSE Update(SetItem(d, pairs[1][1], pairs[1][2]), Tail(pairs))

(* ------------------------------ Drivers -------------------------------- *)
(* A dump result: the tokens handed to the stream before dump returned or  *)
(* raised, and whether it returned (ok) or raised (~ok).                   *)
JSONValue(v) == IF v.ty = "str" THEN Q(v.s) ELSE T(v.s)

RECURSIVE JSONItems(_, _, _)
JSONItems(d, i, n) ==
  IF i > n THEN << >>
  ELSE (IF i > 1 THEN <<T(",")>> ELSE << >>)
       \o <<Q(d[i][1]), T(":"), JSONValue(d[i][2])>>
       \o JSONItems(d, i + 1, n)

(* json.dump(obj_data, stream, separators=(',', ':')): the encoder yields  *)
(* '{', then per item [','] key ':' value, then '}'; a value that is not   *)
(* JSON-serializable raises TypeError after the item's key and ':' went    *)
(* to the stream.                                                          *)
JSONDriver_dump(d) ==
  LET bad == {i \in 1..Len(d) : d[i][2].ty = "obj"}
      first == CHOOSE i \in bad : \A j \in bad : i <= j
  IN IF bad = {}
       THEN [ok |-> TRUE,
             toks |-> <<T("{")>> \o JSONItems(d, 1, Len(d)) \o <<T("}")>>]
       ELSE [ok |-> FALSE,
             toks |-> <<T("{")>> \o JSONItems(d, 1, first - 1)
                      \o (IF first > 1 THEN <<T(",")>> ELSE << >>)
                      \o <<Q(d[first][1]), T(":")>>]

RECURSIVE PickleItems(_)
PickleItems(d) ==
  IF d = << >> THEN << >>
  ELSE <<B("str", d[1][1]), B(d[1][2].ty, d[1][2].s)>> \o PickleItems(Tail(d))

(* pickle.dump(dict(obj_data), stream, 2) *)
PickleDriver_dump(d) ==
  [ok |-> TRUE,
   toks |-> <<Op("PROTO"), Op("EMPTY_DICT")>>
            \o (IF d = << >> THEN << >>
                ELSE <<Op("MARK")>> \o PickleItems(d) \o <<Op("SETITEMS")>>)
            \o <<Op("STOP")>>]

RECURSIVE CSVRows(_)
CSVRows(d) ==
  IF d = << >> THEN << >>
  ELSE <<T(d[1][1]), T(","), T(d[1][2].s), NL>> \o CSVRows(Tail(d))

(* csv.writer(stream).writerows(obj_data.items()): one row per item, each  *)
(* field written as str(field).                                            *)
CSVDriver_dump(d) == [ok |-> TRUE, toks |-> CSVRows(d)]

(* A load result: ok iff self.update(loader.load(fileobj)) returned, and   *)
(* the pairs update() merged into the Store before it returned or raised.  *)
Failed == [ok |-> FALSE, pairs |-> << >>]

FirstStop(c) ==
  LET S == {i \in 1..Len(c) : c[i] = Op("STOP")}
  IN IF S = {} THEN 0 ELSE CHOOSE i \in S : \A j \in S : i <= j

RECURSIVE PicklePairs(_)
PicklePairs(kv) ==
  IF Len(kv) < 2 THEN << >>
  ELSE <<<<kv[1].s, [ty |-> kv[2].ty, s |-> kv[2].s]>>>>
       \o PicklePairs(SubSeq(kv, 3, Len(kv)))

(* pickle.load(stream) after stream.seek(0); it reads up to the first STOP *)
(* opcode.  A text-mode stream (Python 3) gives str, not bytes: TypeError. *)
PickleDriver_load(c, text) ==
  LET stop == FirstStop(c)
      body == SubSeq(c, 1, stop - 1)
      kv == SubSeq(body, 4, Len(body) - 1)
  IN IF text \/ stop < 3 THEN Failed
     ELSE IF body = <<Op("PROTO"), Op("EMPTY_DICT")>>
       THEN [ok |-> TRUE, pairs |-> << >>]
     ELSE IF /\ Len(body) >= 6
             /\ SubSeq(body, 1, 3) = <<Op("PROTO"), Op("EMPTY_DICT"), Op("MARK")>>
             /\ body[Len(body)] = Op("SETITEMS")
             /\ Len(kv) % 2 = 0
             /\ \A i \in 1..Len(kv) : kv[i].k = "pkl"
       THEN [ok |-> TRUE, pairs |-> PicklePairs(kv)]
     ELSE Failed

IsJSONValue(tok) == tok.k = "qstr" \/ (tok.k = "txt" /\ tok.s \in NumTexts)
(* Variant of FromJSONValue that returns every scalar as a string.         *)
FromJSONValue_str(tok) == Str(tok.s)
FromJSONValue(tok) == IF tok.k = "qstr" THEN Str(tok.s) ELSE Num(tok.s)

RECURSIVE JSONPairs(_)
JSONPairs(inner) ==
  IF Len(inner) < 3 THEN << >>
  ELSE <<<<inner[1].s, FromJSONValue(inner[3])>>>>
       \o JSONPairs(SubSeq(inner, 5, Len(inner)))

(* The scalars of a flat JSON array body: scalar (',' scalar)*, or empty.   *)
IsScalarList(ts) ==
  \/ ts = << >>
  \/ /\ Len(ts) % 2 = 1
     /\ \A i \in 1..Len(ts) :
          IF i % 2 = 1 THEN IsJSONValue(ts[i]) ELSE ts[i] = T(",")
Scalars(ts) == SelectSeq(ts, LAMBDA tok : tok # T(","))

FirstClose(ts) ==
  LET S == {i \in 1..Len(ts) : ts[i] = T("]")}
  IN IF S = {} THEN 0 ELSE CHOOSE i \in S : \A j \in S : i <= j

(* The elements of a JSON array body: each a scalar or an array of         *)
(* scalars; [arr, items] per element.                                      *)
RECURSIVE JSONElems(_)
JSONElems(ts) ==
  IF ts = << >> THEN [ok |-> FALSE, elems |-> << >>]
  ELSE LET isArr == ts[1] = T("[")
           n == IF isArr THEN FirstClose(ts) ELSE 1
           okHead == IF isArr THEN n # 0 /\ IsScalarList(SubSeq(ts, 2, n - 1))
                     ELSE IsJSONValue(ts[1])
           elem == [arr |-> isArr,
                    items |-> IF isArr THEN Scalars(SubSeq(ts, 2, n - 1))
                              ELSE <<ts[1]>>]
           rest == SubSeq(ts, n + 1, Len(ts))
       IN IF ~okHead THEN [ok |-> FALSE, elems |-> << >>]
          ELSE IF rest = << >> THEN [ok |-> TRUE, elems |-> <<elem>>]
          ELSE IF rest[1] # T(",") THEN [ok |-> FALSE, elems |-> << >>]
          ELSE LET r == JSONElems(Tail(rest))
               IN [ok |-> r.ok, elems |-> <<elem>> \o r.elems]

(* What dict.update makes of one element of a decoded list: a list of two  *)
(* scalars is a key and a value, a string of two characters is a pair of   *)
(* characters, anything else is not a pair.                                *)
IsPair(e) ==
  IF e.arr THEN Len(e.items) = 2
  ELSE e.items[1].k = "qstr" /\ Len(e.items[1].s) = 2
AsPair(e) ==
  IF e.arr THEN <<e.items[1].s, FromJSONValue(e.items[2])>>
  ELSE <<SubSeq(e.items[1].s, 1, 1), Str(SubSeq(e.items[1].s, 2, 2))>>

(* dict.update(list): elements are merged one by one; one that is not a    *)
(* pair raises, the elements before it stay merged.                        *)
RECURSIVE MergeElems(_)
MergeElems(elems) ==
  IF elems = << >> THEN [ok |-> TRUE, pairs |-> << >>]
  ELSE IF ~IsPair(elems[1]) THEN Failed
  ELSE LET rest == MergeElems(Tail(elems))
       IN [ok |-> rest.ok, pairs |-> <<AsPair(elems[1])>> \o rest.pairs]

JSONArray(inner) ==
  IF inner = << >> THEN [ok |-> TRUE, pairs |-> << >>]
  ELSE LET r == JSONElems(inner)
       IN IF r.ok THEN MergeElems(r.elems) ELSE Failed

(* json.load(stream) after stream.seek(0): the whole content must be one   *)
(* JSON document (white space between tokens allowed); update() takes a    *)
(* JSON object whole and a JSON array element by element.  undecodable:    *)
(* the text-mode read raises UnicodeDecodeError.                           *)
JSONDriver_load(c, undecodable) ==
  LET w == SelectSeq(c, LAMBDA tok : tok # NL)
      inner == SubSeq(w, 2, Len(w) - 1)
  IN IF undecodable \/ Len(w) < 2 THEN Failed
     ELSE IF w[1] = T("[") /\ w[Len(w)] = T("]") THEN JSONArray(inner)
     ELSE IF w[1] # T("{") \/ w[Len(w)] # T("}") THEN Failed
     ELSE IF inner = << >> THEN [ok |-> TRUE, pairs |-> << >>]
     ELSE IF /\ Len(inner) % 4 = 3
             /\ \A i \in 1..Len(inner) :
                  CASE i % 4 = 1 -> inner[i].k = "qstr"
                    [] i % 4 = 2 -> inner[i] = T(":")
                    [] i % 4 = 3 -> IsJSONValue(inner[i])
                    [] OTHER -> inner[i] = T(",")
       THEN [ok |-> TRUE, pairs |-> JSONPairs(inner)]
     ELSE Failed

(* Split c at every occurrence of sep; acc is the piece being collected.   *)
RECURSIVE SplitOn(_, _, _)
SplitOn(c, sep, acc) ==
  IF c = << >> THEN <<acc>>
  ELSE IF c[1] = sep THEN <<acc>> \o SplitOn(Tail(c), sep, << >>)
  ELSE SplitOn(Tail(c), sep, Append(acc, c[1]))

Raw(tok) ==
  CASE tok.k = "txt" -> tok.s
    [] tok.k = "qstr" -> "\"" \o tok.s \o "\""
    [] OTHER -> "<" \o tok.s \o ">"

RECURSIVE RawText(_)
RawText(toks) == IF toks = << >> THEN "" ELSE Raw(toks[1]) \o RawText(Tail(toks))

(* csv field: a leading quoted part is unquoted, what follows is literal.  *)
FieldText(toks) ==
  IF toks = << >> THEN ""
  ELSE IF toks[1].k = "qstr" THEN toks[1].s \o RawText(Tail(toks))
  ELSE RawText(toks)

CSVLines(c) ==
  LET pieces == SplitOn(c, NL, << >>)
  IN IF pieces[Len(pieces)] = << >>
       THEN SubSeq(pieces, 1, Len(pieces) - 1) ELSE pieces

CSVFields(line) ==
  IF line = << >> THEN << >>
  ELSE LET f == SplitOn(line, T(","), << >>)
       IN [i \in 1..Len(f) |-> FieldText(f[i])]

(* dict.update(rows): rows are merged one by one; a row that is not a pair *)
(* raises ValueError, the rows before it stay merged.                      *)
RECURSIVE MergeRows(_)
MergeRows(rows) ==
  IF rows = << >> THEN [ok |-> TRUE, pairs |-> << >>]
  ELSE IF Len(rows[1]) # 2 THEN Failed
  ELSE LET rest == MergeRows(Tail(rows))
       IN [ok |-> rest.ok,
           pairs |-> <<<<rows[1][1], Str(rows[1][2])>>>> \o rest.pairs]

(* csv.reader(stream) after stream.seek(0): a lazy row iterator consumed   *)
(* by update().  bytesmode: a Python 3 binary stream yields bytes lines,   *)
(* csv.Error on the first line.  undecodable: UnicodeDecodeError on read.  *)
CSVDriver_load(c, bytesmode, undecodable) ==
  IF c = << >> THEN [ok |-> TRUE, pairs |-> << >>]
  ELSE IF bytesmode \/ undecodable THEN Failed
  ELSE LET lines == CSVLines(c)
       IN MergeRows([i \in 1..Len(lines) |-> CSVFields(lines[i])])

(* Variant of DRIVERS registered in the opposite order.                    *)
DRIVERS_rev == <<"csv", "json", "pickle">>

(* DRIVERS = OrderedDict((('pickle', ..), ('json', ..), ('csv', ..)))      *)
DRIVERS == <<"pickle", "json", "csv">>
Registered == {DRIVERS[i] : i \in 1..Len(DRIVERS)}
Formats == Registered \cup {"xml"}     \* "xml": a name not in the registry

DriverDump(f, d) ==
  CASE f = "pickle" -> PickleDriver_dump(d)
    [] f = "json" -> JSONDriver_dump(d)
    [] f = "csv" -> CSVDriver_dump(d)

(* --------------------------- file system ------------------------------- *)
VARIABLES
  py,        \* interpreter major version
  active,    \* the processes that run
  dir,       \* directory: dir.target = filename, dir.tmp = filename + '.tmp';
             \* an inode number, or 0 when the name does not exist
  ino,       \* inode table: ino[i].c content, ino[i].r readable by the process
  pc,        \* per process: "new" (no Store), "idle", or the step of sync()
  flag, mode, format, data,   \* PersistentDict attributes and its entries
  fd,        \* inode of the temp file the process holds open (0: none)
  wpos,      \* write position of that open file
  pending,   \* exception raised inside write_temp_file's with block
  raised,    \* exception the last call raised to its caller ("none")
  call,      \* history: "init" / "sync" right after that call ("open": a
             \* sync() whose open of the temp file raised), else "none"
  pre,       \* history: the target file when the running/last sync() began
  hyd,       \* history: what the last construction did
  exc,       \* exception raised by the body of the with statement ("none")
  nsync,     \* history: sync() calls made by the running/last call
  info       \* InfoCommand.prepare_fields: its arguments and its result

vars == <<py, active, dir, ino, pc, flag, mode, format, data, fd, wpos,
          pending, raised, call, pre, hyd, exc, nsync, info>>

Inodes == 1..NumInodes
EmptyInode == [c |-> << >>, r |-> TRUE]
Absent == [ex |-> FALSE, c |-> << >>]
FileAt(d, tab, name) ==
  IF d[name] = 0 THEN Absent ELSE [ex |-> TRUE, c |-> tab[d[name]].c]
Target == FileAt(dir, ino, "target")
Temp == FileAt(dir, ino, "tmp")

Live(d, f) == {d.target, d.tmp} \cup {f[p] : p \in Procs}
FreeInode == CHOOSE i \in Inodes \ Live(dir, fd) :
               \A j \in Inodes \ Live(dir, fd) : i <= j
(* An inode with no name and no open handle is reclaimed.                  *)
Reclaim(tab, d, f) ==
  [i \in Inodes |-> IF i \in Live(d, f) THEN tab[i] ELSE EmptyInode]

(* write(2) of one token at offset pos; a gap past the end reads as NULs.  *)
WriteAt(c, pos, tok) ==
  IF pos < Len(c) THEN [c EXCEPT ![pos + 1] = tok]
  ELSE c \o [i \in 1..(pos - Len(c)) |-> NUL] \o <<tok>>

(* Files found on disk before any Store ran.                               *)
JunkFile == <<T("junk")>>
BadRowFile == <<T("k1"), T(","), T("a"), NL, T("junk"), NL>>
(* Two lines, [["k1","a"] and ,"c"]: a JSON array of a pair and a string.  *)
PairListFile == <<T("["), T("["), Q("k1"), T(","), Q("a"), T("]"), NL,
                  T(","), Q("c"), T("]")>>
InitContents == {JunkFile, BadRowFile}

Flags == {"c", "r", "n"}
Modes == {"None", "0644"}
InitArgs == {<< >>, <<<<"k1", Num("1")>>>>}
(* hyd: fresh (the last call was the constructor), its arguments fl, fmt,  *)
(* args, the target file it found, whether it hydrated from it (read),     *)
(* the Driver that succeeded (by) and the number of Drivers tried.         *)
NoHyd == [fresh |-> FALSE, fl |-> "c", fmt |-> "json", args |-> << >>,
          file |-> Absent, read |-> FALSE, by |-> "none", tried |-> 0]

(* After the next call only the construction arguments fl, fmt remain.    *)
Stale(h) == [NoHyd EXCEPT !.fl = h.fl, !.fmt = h.fmt]

(* Before any Store ran: the target is absent or holds one of contents,    *)
(* readable or not; a temp file left by some earlier run may exist.        *)
InitFiles(contents) ==
  /\ py \in PyVersions
  /\ \E t \in {Absent} \cup {[ex |-> TRUE, c |-> x] : x \in contents},
        r \in BOOLEAN, stale \in BOOLEAN :
       /\ (~t.ex => r)
       /\ dir = [target |-> IF t.ex THEN 1 ELSE 0, tmp |-> IF stale THEN 2 ELSE 0]
       /\ ino = [i \in Inodes |->
                   IF i = 1 /\ t.ex THEN [c |-> t.c, r |-> r]
                   ELSE IF i = 2 /\ stale THEN [c |-> JunkFile, r |-> TRUE]
                   ELSE EmptyInode]
  /\ pc = [p \in Procs |-> "new"]
  /\ flag = [p \in Procs |-> "c"]
  /\ mode = [p \in Procs |-> "None"]
  /\ format = [p \in Procs |-> "json"]
  /\ data = [p \in Procs |-> << >>]
  /\ fd = [p \in Procs |-> 0]
  /\ wpos = [p \in Procs |-> 0]
  /\ pending = [p \in Procs |-> "none"]
  /\ raised = [p \in Procs |-> "none"]
  /\ call = [p \in Procs |-> "none"]
  /\ pre = [p \in Procs |-> Absent]
  /\ hyd = [p \in Procs |-> NoHyd]
  /\ exc = [p \in Procs |-> "none"]
  /\ nsync = [p \in Procs |-> 0]

InitFS == InitFiles(InitContents)

(* No call of prepare_fields is under way.                                 *)
NoInfo == [st |-> "idle", fields |-> << >>, attrs |-> << >>,
           instance |-> [has |-> FALSE, address |-> ""], out |-> "none"]

Init == InitFS /\ active = {"p1"} /\ info = NoInfo

(* Files for hydration: what other programs left and what a Store of any   *)
(* registered format wrote for a mapping of up to two entries.             *)
HydMaps ==
  {<< >>}
  \cup {<<<<k, v>>>> : k \in Keys, v \in {Str("a"), Num("1")}}
  \cup {<<<<"k1", v1>>, <<"k2", v2>>>> :
          v1 \in {Str("a"), Num("1")}, v2 \in {Str("a"), Num("1")}}
HydContents ==
  InitContents \cup {PairListFile}
  \cup {DriverDump(f, m).toks : f \in Registered, m \in HydMaps}
InitHyd == InitFiles(HydContents) /\ active = {"p1"} /\ info = NoInfo
InitMP == InitFS /\ active = Procs /\ info = NoInfo

(* --------------------------- PersistentDict ---------------------------- *)
_write_mode(f) == IF f = "pickle" THEN "wb" ELSE "w"
_read_mode(f) == IF f = "pickle" THEN "rb" ELSE "r"

(* What open(filename, m) gives on interpreter v: Python 2 streams are     *)
(* bytes in both modes; Python 3 'r'/'w' is text (str), 'rb'/'wb' bytes.   *)
IsText(v, m) == v = 3 /\ m \in {"r", "w"}
IsBytes(v, m) == v = 3 /\ m \in {"rb", "wb"}
Undecodable(v, m, c) == IsText(v, m) /\ \E i \in 1..Len(c) : IsBinary(c[i])

(* Variant of Driver.load without the seek.                                *)
Driver_load_stay(pos) == pos

(* Driver.load(stream): stream.seek(0); the position it leaves.            *)
Driver_load(pos) == 0

(* The part of the content a read from position pos sees.                  *)
Rest(c, pos) == SubSeq(c, pos + 1, Len(c))

(* The stream position a Driver's failed attempt leaves: pickle.load       *)
(* stops at the STOP opcode or at the first byte it rejects, json.load     *)
(* and the csv reader have read the stream to its end.                     *)
Consumed(f, c) ==
  LET S == {i \in 1..Len(c) : c[i].k \notin {"pkl", "op"} \/ c[i] = Op("STOP")}
  IN IF f # "pickle" \/ S = {} THEN Len(c)
     ELSE CHOOSE i \in S : \A j \in S : i <= j

(* The stream position on entry to the attempt of the i-th Driver.         *)
StreamPos(i, c) == IF i = 1 THEN 0 ELSE Consumed(DRIVERS[i - 1], c)

DriverLoad(f, c, m, v) ==
  CASE f = "pickle" -> PickleDriver_load(c, IsText(v, m))
    [] f = "json" -> JSONDriver_load(c, Undecodable(v, m, c))
    [] f = "csv" -> CSVDriver_load(c, IsBytes(v, m), Undecodable(v, m, c))

(* Variant of load without "continue": the first Driver's failure ends    *)
(* the detection.                                                          *)
load_first(i, d, c, m, v) ==
  LET res == DriverLoad(DRIVERS[i], c, m, v)
  IN [ok |-> res.ok, data |-> Update(d, res.pairs),
      by |-> IF res.ok THEN DRIVERS[i] ELSE "none", tried |-> i]

(* PersistentDict.load: try the Drivers in registry order from index i,    *)
(* each on the stream as the attempt before left it; each attempt's merged *)
(* pairs go into d; stop at the first that returns.                        *)
RECURSIVE load(_, _, _, _, _)
load(i, d, c, m, v) ==
  IF i > Len(DRIVERS)
    THEN [ok |-> FALSE, data |-> d, by |-> "none", tried |-> Len(DRIVERS)]
  ELSE LET at == Driver_load(StreamPos(i, c))
           res == DriverLoad(DRIVERS[i], Rest(c, at), m, v)
           d2 == Update(d, res.pairs)
       IN IF res.ok
            THEN [ok |-> TRUE, data |-> d2, by |-> DRIVERS[i], tried |-> i]
            ELSE load(i + 1, d2, c, m, v)

(* Variant of dump without the "except KeyError" translation.             *)
dump_keyerror(f, d, m, v) ==
  IF f \notin Registered
    THEN [ok |-> FALSE, toks |-> << >>, exc |-> "KeyError"]
  ELSE LET enc == DriverDump(f, d)
       IN [ok |-> enc.ok, toks |-> enc.toks,
           exc |-> IF enc.ok THEN "none" ELSE "TypeError"]

(* PersistentDict.dump: the tokens written and whether it returned; an     *)
(* unregistered format raises NotImplementedError before any write; on     *)
(* Python 3 a Driver writing bytes to a text stream (or str to a bytes     *)
(* stream) raises TypeError on its first write.                            *)
dump(f, d, m, v) ==
  IF f \notin Registered
    THEN [ok |-> FALSE, toks |-> << >>, exc |-> "NotImplementedError"]
  ELSE IF (f = "pickle" /\ IsText(v, m)) \/ (f # "pickle" /\ IsBytes(v, m))
    THEN [ok |-> FALSE, toks |-> << >>, exc |-> "TypeError"]
  ELSE LET enc == DriverDump(f, d)
       IN [ok |-> enc.ok, toks |-> enc.toks,
           exc |-> IF enc.ok THEN "none" ELSE "TypeError"]

Accessible == dir.target # 0 /\ ino[dir.target].r

(* Variant of Construct that tests the flag against 'r' instead of 'n'.   *)
Construct_flagr(p, fl, md, fmt, args) ==
  /\ pc[p] = "new"
  /\ LET d0 == Update(<< >>, args)
         hydrate == fl # "r" /\ Accessible
         res == IF hydrate
                  THEN load(1, d0, Target.c, _read_mode(fmt), py)
                  ELSE [ok |-> TRUE, data |-> d0, by |-> "none", tried |-> 0]
     IN /\ hyd' = [hyd EXCEPT ![p] =
                     [fresh |-> TRUE, fl |-> fl, fmt |-> fmt, args |-> args,
                      file |-> Target, read |-> hydrate,
                      by |-> res.by, tried |-> res.tried]]
        /\ IF res.ok
             THEN /\ pc' = [pc EXCEPT ![p] = "idle"]
                  /\ flag' = [flag EXCEPT ![p] = fl]
                  /\ mode' = [mode EXCEPT ![p] = md]
                  /\ format' = [format EXCEPT ![p] = fmt]
                  /\ data' = [data EXCEPT ![p] = res.data]
                  /\ raised' = [raised EXCEPT ![p] = "none"]
             ELSE /\ raised' = [raised EXCEPT ![p] = "ValueError"]
                  /\ UNCHANGED <<pc, flag, mode, format, data>>
  /\ call' = [call EXCEPT ![p] = "init"]
  /\ pre' = [pre EXCEPT ![p] = Absent]
  /\ exc' = [exc EXCEPT ![p] = "none"]
  /\ nsync' = [nsync EXCEPT ![p] = 0]
  /\ UNCHANGED <<info, py, active, dir, ino, fd, wpos, pending>>

(* Variant of Construct that adopts the detected format for writing.      *)
Construct_detect(p, fl, md, fmt, args) ==
  /\ pc[p] = "new"
  /\ LET d0 == Update(<< >>, args)
         hydrate == fl # "n" /\ Accessible
         res == IF hydrate
                  THEN load(1, d0, Target.c, _read_mode(fmt), py)
                  ELSE [ok |-> TRUE, data |-> d0, by |-> "none", tried |-> 0]
     IN /\ hyd' = [hyd EXCEPT ![p] =
                     [fresh |-> TRUE, fl |-> fl, fmt |-> fmt, args |-> args,
                      file |-> Target, read |-> hydrate,
                      by |-> res.by, tried |-> res.tried]]
        /\ IF res.ok
             THEN /\ pc' = [pc EXCEPT ![p] = "idle"]
                  /\ flag' = [flag EXCEPT ![p] = fl]
                  /\ mode' = [mode EXCEPT ![p] = md]
                  /\ format' = [format EXCEPT ![p] =
                                  IF res.by = "none" THEN fmt ELSE res.by]
                  /\ data' = [data EXCEPT ![p] = res.data]
                  /\ raised' = [raised EXCEPT ![p] = "none"]
             ELSE /\ raised' = [raised EXCEPT ![p] = "ValueError"]
                  /\ UNCHANGED <<pc, flag, mode, format, data>>
  /\ call' = [call EXCEPT ![p] = "init"]
  /\ pre' = [pre EXCEPT ![p] = Absent]
  /\ exc' = [exc EXCEPT ![p] = "none"]
  /\ nsync' = [nsync EXCEPT ![p] = 0]
  /\ UNCHANGED <<info, py, active, dir, ino, fd, wpos, pending>>

(* PersistentDict.__init__(filename, flag, mode, _format, *args)           *)
Construct(p, fl, md, fmt, args) ==
  /\ pc[p] = "new"
  /\ LET d0 == Update(<< >>, args)
         hydrate == fl # "n" /\ Accessible
         res == IF hydrate
                  THEN load(1, d0, Target.c, _read_mode(fmt), py)
                  ELSE [ok |-> TRUE, data |-> d0, by |-> "none", tried |-> 0]
     IN /\ hyd' = [hyd EXCEPT ![p] =
                     [fresh |-> TRUE, fl |-> fl, fmt |-> fmt, args |-> args,
                      file |-> Target, read |-> hydrate,
                      by |-> res.by, tried |-> res.tried]]
        /\ IF res.ok
             THEN /\ pc' = [pc EXCEPT ![p] = "idle"]
                  /\ flag' = [flag EXCEPT ![p] = fl]
                  /\ mode' = [mode EXCEPT ![p] = md]
                  /\ format' = [format EXCEPT ![p] = fmt]
                  /\ data' = [data EXCEPT ![p] = res.data]
                  /\ raised' = [raised EXCEPT ![p] = "none"]
             ELSE /\ raised' = [raised EXCEPT ![p] = "ValueError"]
                  /\ UNCHANGED <<pc, flag, mode, format, data>>
  /\ call' = [call EXCEPT ![p] = "init"]
  /\ pre' = [pre EXCEPT ![p] = Absent]
  /\ exc' = [exc EXCEPT ![p] = "none"]
  /\ nsync' = [nsync EXCEPT ![p] = 0]
  /\ UNCHANGED <<info, py, active, dir, ino, fd, wpos, pending>>

(* Variant of Set that writes the new contents through to an existing     *)
(* target file.                                                            *)
Set_through(p, key, v) ==
  /\ pc[p] = "idle"
  /\ data' = [data EXCEPT ![p] = SetItem(data[p], key, v)]
  /\ ino' = IF dir.target = 0 THEN ino
            ELSE [ino EXCEPT ![dir.target].c =
                    dump(format[p], data'[p], _write_mode(format[p]), py).toks]
  /\ call' = [call EXCEPT ![p] = "none"]
  /\ raised' = [raised EXCEPT ![p] = "none"]
  /\ pre' = [pre EXCEPT ![p] = Absent]
  /\ hyd' = [hyd EXCEPT ![p] = Stale(hyd[p])]
  /\ nsync' = [nsync EXCEPT ![p] = 0]
  /\ UNCHANGED <<info, py, active, dir, pc, flag, mode, format, fd, wpos,
                 pending, exc>>

(* OrderedDict.__setitem__ / __delitem__ on an open Store                  *)
Set(p, key, v) ==
  /\ pc[p] = "idle"
  /\ data' = [data EXCEPT ![p] = SetItem(data[p], key, v)]
  /\ call' = [call EXCEPT ![p] = "none"]
  /\ raised' = [raised EXCEPT ![p] = "none"]
  /\ pre' = [pre EXCEPT ![p] = Absent]
  /\ hyd' = [hyd EXCEPT ![p] = Stale(hyd[p])]
  /\ UNCHANGED exc
  /\ nsync' = [nsync EXCEPT ![p] = 0]
  /\ UNCHANGED <<info, py, active, dir, ino, pc, flag, mode, format, fd, wpos,
                 pending>>

Del(p, key) ==
  /\ pc[p] = "idle"
  /\ HasKey(data[p], key)
  /\ data' = [data EXCEPT ![p] = DelItem(data[p], key)]
  /\ call' = [call EXCEPT ![p] = "none"]
  /\ raised' = [raised EXCEPT ![p] = "none"]
  /\ pre' = [pre EXCEPT ![p] = Absent]
  /\ hyd' = [hyd EXCEPT ![p] = Stale(hyd[p])]
  /\ UNCHANGED exc
  /\ nsync' = [nsync EXCEPT ![p] = 0]
  /\ UNCHANGED <<info, py, active, dir, ino, pc, flag, mode, format, fd, wpos,
                 pending>>

(* The Store object goes out of use without close(); the process may       *)
(* construct another one on the same path.                                 *)
Drop(p) ==
  /\ pc[p] = "idle"
  /\ pc' = [pc EXCEPT ![p] = "new"]
  /\ flag' = [flag EXCEPT ![p] = "c"]
  /\ mode' = [mode EXCEPT ![p] = "None"]
  /\ format' = [format EXCEPT ![p] = "json"]
  /\ data' = [data EXCEPT ![p] = << >>]
  /\ call' = [call EXCEPT ![p] = "none"]
  /\ raised' = [raised EXCEPT ![p] = "none"]
  /\ pre' = [pre EXCEPT ![p] = Absent]
  /\ hyd' = [hyd EXCEPT ![p] = NoHyd]
  /\ exc' = [exc EXCEPT ![p] = "none"]
  /\ nsync' = [nsync EXCEPT ![p] = 0]
  /\ UNCHANGED <<info, py, active, dir, ino, fd, wpos, pending>>

(* Variant of sync without the read-only test.                            *)
sync_noflag(p) ==
  /\ pc[p] = "idle"
  /\ call' = [call EXCEPT ![p] = "sync"]
  /\ raised' = [raised EXCEPT ![p] = "none"]
  /\ hyd' = [hyd EXCEPT ![p] = Stale(hyd[p])]
  /\ pre' = [pre EXCEPT ![p] = Target]
  /\ IF FALSE
       THEN UNCHANGED <<dir, ino, pc, fd, wpos>>
       ELSE /\ pc' = [pc EXCEPT ![p] = "dump"]
            /\ wpos' = [wpos EXCEPT ![p] = 0]
            /\ IF dir.tmp # 0
                 THEN /\ fd' = [fd EXCEPT ![p] = dir.tmp]
                      /\ ino' = [ino EXCEPT ![dir.tmp].c = << >>]
                      /\ dir' = dir
                 ELSE /\ fd' = [fd EXCEPT ![p] = FreeInode]
                      /\ ino' = [ino EXCEPT ![FreeInode] = EmptyInode]
                      /\ dir' = [dir EXCEPT !.tmp = FreeInode]
  /\ UNCHANGED exc
  /\ nsync' = [nsync EXCEPT ![p] = 1]
  /\ UNCHANGED <<info, py, active, flag, mode, format, data, pending>>

(* Variant of sync that writes the target in place, without a temp file.   *)
sync_inplace(p) ==
  /\ pc[p] = "idle"
  /\ call' = [call EXCEPT ![p] = "sync"]
  /\ raised' = [raised EXCEPT ![p] = "none"]
  /\ hyd' = [hyd EXCEPT ![p] = Stale(hyd[p])]
  /\ pre' = [pre EXCEPT ![p] = Target]
  /\ IF flag[p] = "r"
       THEN UNCHANGED <<dir, ino, pc, fd, wpos>>
       ELSE /\ pc' = [pc EXCEPT ![p] = "dump"]
            /\ wpos' = [wpos EXCEPT ![p] = 0]
            /\ IF dir.target # 0
                 THEN /\ fd' = [fd EXCEPT ![p] = dir.target]
                      /\ ino' = [ino EXCEPT ![dir.target].c = << >>]
                      /\ dir' = dir
                 ELSE /\ fd' = [fd EXCEPT ![p] = FreeInode]
                      /\ ino' = [ino EXCEPT ![FreeInode] = EmptyInode]
                      /\ dir' = [dir EXCEPT !.target = FreeInode]
  /\ UNCHANGED exc
  /\ nsync' = [nsync EXCEPT ![p] = 1]
  /\ UNCHANGED <<info, py, active, flag, mode, format, data, pending>>

(* sync(), first step.  flag 'r': return at once.  Otherwise               *)
(* write_temp_file opens filename + '.tmp' for writing, which creates the  *)
(* file or truncates the existing one.                                     *)
sync(p) ==
  /\ pc[p] = "idle"
  /\ call' = [call EXCEPT ![p] = "sync"]
  /\ raised' = [raised EXCEPT ![p] = "none"]
  /\ hyd' = [hyd EXCEPT ![p] = Stale(hyd[p])]
  /\ pre' = [pre EXCEPT ![p] = Target]
  /\ IF flag[p] = "r"
       THEN UNCHANGED <<dir, ino, pc, fd, wpos>>
       ELSE /\ pc' = [pc EXCEPT ![p] = "dump"]
            /\ wpos' = [wpos EXCEPT ![p] = 0]
            /\ IF dir.tmp # 0
                 THEN /\ fd' = [fd EXCEPT ![p] = dir.tmp]
                      /\ ino' = [ino EXCEPT ![dir.tmp].c = << >>]
                      /\ dir' = dir
                 ELSE /\ fd' = [fd EXCEPT ![p] = FreeInode]
                      /\ ino' = [ino EXCEPT ![FreeInode] = EmptyInode]
                      /\ dir' = [dir EXCEPT !.tmp = FreeInode]
  /\ UNCHANGED exc
  /\ nsync' = [nsync EXCEPT ![p] = 1]
  /\ UNCHANGED <<info, py, active, flag, mode, format, data, pending>>

(* sync(), first step, when open(tempname, ...) raises (no descriptor      *)
(* left, no space, ...): no file is created or truncated and control       *)
(* reaches "except Exception" with the error of open pending.              *)
OpenRaise(p) ==
  /\ pc[p] = "idle"
  /\ flag[p] # "r"
  /\ call' = [call EXCEPT ![p] = "open"]
  /\ raised' = [raised EXCEPT ![p] = "none"]
  /\ hyd' = [hyd EXCEPT ![p] = Stale(hyd[p])]
  /\ pre' = [pre EXCEPT ![p] = Target]
  /\ pc' = [pc EXCEPT ![p] = "except"]
  /\ pending' = [pending EXCEPT ![p] = "OSError"]
  /\ UNCHANGED exc
  /\ nsync' = [nsync EXCEPT ![p] = 1]
  /\ UNCHANGED <<info, py, active, dir, ino, flag, mode, format, data, fd, wpos>>

(* close(): self.sync()                                                    *)
close(p) == sync(p)

(* Variant of __exit__ that returns without calling close().              *)
__exit__pass(p) ==
  /\ pc[p] = "idle"
  /\ call' = [call EXCEPT ![p] = "sync"]
  /\ raised' = [raised EXCEPT ![p] = "none"]
  /\ hyd' = [hyd EXCEPT ![p] = Stale(hyd[p])]
  /\ pre' = [pre EXCEPT ![p] = Target]
  /\ nsync' = [nsync EXCEPT ![p] = 0]
  /\ UNCHANGED <<info, py, active, dir, ino, pc, flag, mode, format, data,
                 fd, wpos, pending, exc>>

(* __exit__: self.close()                                                  *)
__exit__(p) == close(p)

(* The body of "with PersistentDict(...) as store:" raises; the with       *)
(* statement hands the exception to __exit__ next.                         *)
BodyRaise(p) ==
  /\ pc[p] = "idle"
  /\ exc[p] = "none"
  /\ exc' = [exc EXCEPT ![p] = "BodyError"]
  /\ call' = [call EXCEPT ![p] = "none"]
  /\ raised' = [raised EXCEPT ![p] = "none"]
  /\ pre' = [pre EXCEPT ![p] = Absent]
  /\ hyd' = [hyd EXCEPT ![p] = Stale(hyd[p])]
  /\ nsync' = [nsync EXCEPT ![p] = 0]
  /\ UNCHANGED <<info, py, active, dir, ino, pc, flag, mode, format, data,
                 fd, wpos, pending>>

(* __exit__ returned None (it has no return statement), which is false:    *)
(* the with statement re-raises the exception of its body.                 *)
WithLeave(p) ==
  /\ pc[p] = "idle"
  /\ call[p] = "sync"
  /\ raised[p] = "none"
  /\ exc[p] # "none"
  /\ raised' = [raised EXCEPT ![p] = exc[p]]
  /\ UNCHANGED <<info, py, active, dir, ino, pc, flag, mode, format, data,
                 fd, wpos, pending, call, pre, hyd, exc, nsync>>

(* Control has left the with statement: __exit__ raised, or it returned    *)
(* and the exception of the body, if any, was re-raised.                   *)
Left(p) ==
  /\ pc[p] = "idle"
  /\ call[p] \in {"sync", "open"}
  /\ exc[p] # "none" => raised[p] # "none"

(* write_temp_file, inside the with block: self.dump(fileobj) hands the     *)
(* next token to the stream.                                               *)
DumpWrite(p) ==
  /\ pc[p] = "dump"
  /\ LET out == dump(format[p], data[p], _write_mode(format[p]), py)
     IN /\ wpos[p] < Len(out.toks)
        /\ ino' = [ino EXCEPT ![fd[p]].c =
                     WriteAt(ino[fd[p]].c, wpos[p], out.toks[wpos[p] + 1])]
        /\ wpos' = [wpos EXCEPT ![p] = wpos[p] + 1]
  /\ UNCHANGED <<exc, nsync>>
  /\ UNCHANGED <<info, py, active, dir, pc, flag, mode, format, data, fd, pending,
                 raised, call, pre, hyd>>

(* dump returned: the with block closes the stream, write_temp_file        *)
(* returns tempname.                                                       *)
DumpReturn(p) ==
  /\ pc[p] = "dump"
  /\ LET out == dump(format[p], data[p], _write_mode(format[p]), py)
     IN wpos[p] = Len(out.toks) /\ out.ok
  /\ pc' = [pc EXCEPT ![p] = "move"]
  /\ fd' = [fd EXCEPT ![p] = 0]
  /\ wpos' = [wpos EXCEPT ![p] = 0]
  /\ ino' = Reclaim(ino, dir, fd')
  /\ UNCHANGED <<exc, nsync>>
  /\ UNCHANGED <<info, py, active, dir, flag, mode, format, data, pending, raised,
                 call, pre, hyd>>

(* dump raised: the with block closes the stream and control reaches       *)
(* "except Exception".                                                     *)
DumpRaise(p) ==
  /\ pc[p] = "dump"
  /\ LET out == dump(format[p], data[p], _write_mode(format[p]), py)
     IN /\ wpos[p] = Len(out.toks) /\ ~out.ok
        /\ pending' = [pending EXCEPT ![p] = out.exc]
  /\ pc' = [pc EXCEPT ![p] = "except"]
  /\ fd' = [fd EXCEPT ![p] = 0]
  /\ wpos' = [wpos EXCEPT ![p] = 0]
  /\ ino' = Reclaim(ino, dir, fd')
  /\ UNCHANGED <<exc, nsync>>
  /\ UNCHANGED <<info, py, active, dir, flag, mode, format, data, raised, call,
                 pre, hyd>>

(* Variant of RemoveTemp that re-raises without removing the temp file.   *)
RemoveTemp_keep(p) ==
  /\ pc[p] = "except"
  /\ raised' = [raised EXCEPT ![p] = pending[p]]
  /\ pc' = [pc EXCEPT ![p] = "idle"]
  /\ pending' = [pending EXCEPT ![p] = "none"]
  /\ UNCHANGED <<exc, nsync>>
  /\ UNCHANGED <<info, py, active, dir, ino, flag, mode, format, data, fd, wpos,
                 call, pre, hyd>>

(* except Exception: os.remove(tempname); raise.  When the name is gone    *)
(* os.remove raises FileNotFoundError in place of the pending exception.   *)
RemoveTemp(p) ==
  /\ pc[p] = "except"
  /\ IF dir.tmp # 0
       THEN /\ dir' = [dir EXCEPT !.tmp = 0]
            /\ ino' = Reclaim(ino, dir', fd)
            /\ raised' = [raised EXCEPT ![p] = pending[p]]
       ELSE /\ raised' = [raised EXCEPT ![p] = "FileNotFoundError"]
            /\ UNCHANGED <<dir, ino>>
  /\ pc' = [pc EXCEPT ![p] = "idle"]
  /\ pending' = [pending EXCEPT ![p] = "none"]
  /\ UNCHANGED <<exc, nsync>>
  /\ UNCHANGED <<info, py, active, flag, mode, format, data, fd, wpos, call, pre,
                 hyd>>

(* os.chmod(dst, dst_mode): the modes used keep the file readable.         *)
Chmod(tab, i, md) == IF md = "None" THEN tab ELSE [tab EXCEPT ![i].r = TRUE]

(* Variant of MoveFile that copies the temp file to the target and leaves  *)
(* the temp file in place.                                                 *)
MoveFile_copy(p) ==
  /\ pc[p] = "move"
  /\ IF dir.tmp # 0
       THEN LET dst == IF dir.target # 0 THEN dir.target ELSE FreeInode
            IN /\ dir' = [dir EXCEPT !.target = dst]
               /\ ino' = Chmod([ino EXCEPT ![dst] =
                                  [c |-> ino[dir.tmp].c, r |-> TRUE]],
                               dst, mode[p])
               /\ UNCHANGED raised
       ELSE /\ raised' = [raised EXCEPT ![p] = "FileNotFoundError"]
            /\ UNCHANGED <<dir, ino>>
  /\ pc' = [pc EXCEPT ![p] = "idle"]
  /\ UNCHANGED <<exc, nsync>>
  /\ UNCHANGED <<info, py, active, flag, mode, format, data, fd, wpos, pending,
                 call, pre, hyd>>

(* move_file_and_set_mode: shutil.move(src, dst) is rename(2) within one   *)
(* directory, then os.chmod when a mode is set.  When src is gone the      *)
(* rename and the copy fallback both raise FileNotFoundError.              *)
MoveFile(p) ==
  /\ pc[p] = "move"
  /\ IF dir.tmp # 0
       THEN /\ dir' = [target |-> dir.tmp, tmp |-> 0]
            /\ ino' = Reclaim(Chmod(ino, dir.tmp, mode[p]), dir', fd)
            /\ UNCHANGED raised
       ELSE /\ raised' = [raised EXCEPT ![p] = "FileNotFoundError"]
            /\ UNCHANGED <<dir, ino>>
  /\ pc' = [pc EXCEPT ![p] = "idle"]
  /\ UNCHANGED <<exc, nsync>>
  /\ UNCHANGED <<info, py, active, flag, mode, format, data, fd, wpos, pending,
                 call, pre, hyd>>

Next ==
  \E p \in active :
    \/ \E fl \in Flags, md \in Modes, fmt \in Formats, args \in InitArgs :
         Construct(p, fl, md, fmt, args)
    \/ \E key \in Keys, v \in Vals : Set(p, key, v)
    \/ \E key \in Keys : Del(p, key)
    \/ Drop(p)
    \/ sync(p)
    \/ close(p)
    \/ __exit__(p)
    \/ OpenRaise(p)
    \/ DumpWrite(p)
    \/ DumpReturn(p)
    \/ DumpRaise(p)
    \/ RemoveTemp(p)
    \/ MoveFile(p)

Spec == Init /\ [][Next]_vars

(* Several processes, each with its own Store on the same path; the steps  *)
(* of their sync() calls interleave.  Each process constructs one Store,   *)
(* sets entries and calls sync() once; inputs come from smaller sets.      *)
MPFormats == {"json", "csv"}
NextMP ==
  \E p \in active :
    \/ \E fmt \in MPFormats : Construct(p, "c", "None", fmt, << >>)
    \/ \E v \in Vals : call[p] # "sync" /\ Set(p, "k1", v)
    \/ call[p] # "sync" /\ sync(p)
    \/ DumpWrite(p)
    \/ DumpReturn(p)
    \/ DumpRaise(p)
    \/ RemoveTemp(p)
    \/ MoveFile(p)

SpecMP == InitMP /\ [][NextMP]_vars

(* One process that uses each Store as a context manager: it constructs    *)
(* the Store, the body sets entries and completes or raises, __exit__      *)
(* runs, control leaves the with statement and the Store is dropped.       *)
WithFlags == {"c", "r"}
NextWith ==
  \E p \in active :
    \/ \E fl \in WithFlags, fmt \in MPFormats :
         Construct(p, fl, "None", fmt, << >>)
    \/ \E key \in Keys, v \in Vals :
         exc[p] = "none" /\ call[p] \notin {"sync", "open"} /\ Set(p, key, v)
    \/ call[p] \notin {"sync", "open"} /\ BodyRaise(p)
    \/ call[p] \notin {"sync", "open"} /\ __exit__(p)
    \/ call[p] \notin {"sync", "open"} /\ OpenRaise(p)
    \/ DumpWrite(p)
    \/ DumpReturn(p)
    \/ DumpRaise(p)
    \/ RemoveTemp(p)
    \/ MoveFile(p)
    \/ WithLeave(p)
    \/ Left(p) /\ Drop(p)

SpecWith == Init /\ [][NextWith]_vars

(* One process that constructs Stores on the files of HydContents, with    *)
(* every flag, format and set of initial entries, and drops them.          *)
NextHyd ==
  \E p \in active :
    \/ \E fl \in Flags, md \in Modes, fmt \in Formats, args \in InitArgs :
         Construct(p, fl, md, fmt, args)
    \/ Drop(p)

SpecHyd == InitHyd /\ [][NextHyd]_vars

(* ------------------------- InfoCommand.prepare_fields ------------------ *)
MaxFields == 3
FieldNames == {"port", "user"}
FieldVals == {"22", "root"}

(* Python values: a str, or a tuple of items.                              *)
PyStr(x) == [kind |-> "str", s |-> x, items |-> << >>]
PyTuple(xs) == [kind |-> "tuple", s |-> "", items |-> xs]

(* operator.attrgetter over the names, applied to obj: without a name     *)
(* the constructor raises TypeError; with one name the result is that      *)
(* attribute itself; with several it is the tuple of the attributes.       *)
attrgetter(names, attrs) ==
  IF Len(names) = 0 THEN [ok |-> FALSE, v |-> PyStr("")]
  ELSE IF Len(names) = 1 THEN [ok |-> TRUE, v |-> PyStr(attrs[names[1]])]
  ELSE [ok |-> TRUE,
        v |-> PyTuple([i \in 1..Len(names) |-> attrs[names[i]]])]

(* getattr(instance, 'address', '')                                        *)
getattr_address(instance) == IF instance.has THEN instance.address ELSE ""

(* a + b for b a tuple: concatenation when a is a tuple, TypeError when a  *)
(* is a str.                                                               *)
AddTuple(a, b) ==
  IF a.kind = "tuple" THEN [ok |-> TRUE, v |-> PyTuple(a.items \o b.items)]
  ELSE [ok |-> FALSE, v |-> a]

(* prepare_fields(ssh_config, instance), with ssh_config given by the      *)
(* names allowed_fields() yields and by its attributes: the pair (keys,    *)
(* values), or the TypeError raised while values is computed.              *)
prepare_fields(fields, attrs, instance) ==
  LET keys == fields \o <<"address">>
      got == attrgetter(fields, attrs)
      values == AddTuple(got.v, PyTuple(<<getattr_address(instance)>>))
  IN IF got.ok /\ values.ok
       THEN [ok |-> TRUE, exc |-> "none", keys |-> keys,
             values |-> values.v.items]
       ELSE [ok |-> FALSE, exc |-> "TypeError", keys |-> << >>,
             values |-> << >>]

FieldLists == UNION {[1..n -> FieldNames] : n \in 0..MaxFields}
Instances == {[has |-> FALSE, address |-> ""], [has |-> TRUE, address |-> "host"]}

InitInfo ==
  /\ InitFiles({})
  /\ py = 3 /\ dir = [target |-> 0, tmp |-> 0]
  /\ active = {}
  /\ \E fs \in FieldLists, at \in [FieldNames -> FieldVals], i \in Instances :
       info = [st |-> "called", fields |-> fs, attrs |-> at, instance |-> i,
               out |-> "none"]

Call_prepare_fields ==
  /\ info.st = "called"
  /\ info' = [info EXCEPT
                !.st = "done",
                !.out = prepare_fields(info.fields, info.attrs, info.instance)]
  /\ UNCHANGED <<py, active, dir, ino, pc, flag, mode, format, data, fd, wpos,
                 pending, raised, call, pre, hyd, exc, nsync>>

NextInfo == Call_prepare_fields

SpecInfo == InitInfo /\ [][NextInfo]_vars

TypeOK ==
  /\ \A p \in Procs : pc[p] \in {"new", "idle", "dump", "except", "move"}
  /\ dir.target \in 0..NumInodes /\ dir.tmp \in 0..NumInodes

(* ------------------------------ claims --------------------------------- *)
Out(p) == dump(format[p], data[p], _write_mode(format[p]), py)
InSync(p) == pc[p] \in {"dump", "except", "move"}
Returned(p) == pc[p] = "idle" /\ call[p] = "sync"
NewVersion(p) == [ex |-> Out(p).ok, c |-> Out(p).toks]

(* C1: for a single read-write Store, at every point of a sync() and when  *)
(* it has returned, the target file is either the complete version from    *)
(* before the sync() began or the complete serialization of the Store.     *)
C1_TargetOldOrNew ==
  \A p \in active :
    (InSync(p) \/ Returned(p)) =>
      \/ Target = pre[p]
      \/ Out(p).ok /\ Target = NewVersion(p)

(* C1 witness: a sync() has replaced an existing complete target by the    *)
(* different, complete serialization of the Store.                         *)
C1_Witness ==
  \E p \in active :
    /\ Returned(p) /\ raised[p] = "none" /\ flag[p] # "r"
    /\ pre[p].ex /\ Target # pre[p] /\ Target = NewVersion(p)
    /\ Len(data[p]) = 2

(* A file content is a fully written serialization when some registered    *)
(* Driver decodes it and that Driver's dump of the decoded mapping gives   *)
(* the content back.                                                       *)
FullyWritten(c) ==
  \E f \in Registered :
    LET r == DriverLoad(f, c, "r", 2)
    IN r.ok /\ DriverDump(f, Update(<< >>, r.pairs)) = [ok |-> TRUE, toks |-> c]

(* C2: with several processes syncing Stores on the same path, the target  *)
(* file is at all times a file that predates the Stores or a fully written *)
(* serialization.                                                          *)
C2_TargetFullyWritten ==
  Target.ex => (Target.c \in InitContents \/ FullyWritten(Target.c))

(* C3: when serialization raised during sync(), then once sync() has       *)
(* returned the target is what it was before the call, the temp file does  *)
(* not exist, and the caller got the serialization's exception.            *)
C3_FailedSyncLeavesTarget ==
  \A p \in active :
    (Returned(p) /\ flag[p] # "r" /\ ~Out(p).ok) =>
      /\ Target = pre[p]
      /\ ~Temp.ex
      /\ raised[p] = Out(p).exc

(* C3 witness: a JSON serialization failed after writing part of the       *)
(* content, over an existing target.                                       *)
C3_Witness ==
  \E p \in active :
    /\ Returned(p) /\ flag[p] # "r" /\ raised[p] = "TypeError"
    /\ Len(Out(p).toks) > 1 /\ pre[p].ex

(* What a construction with arguments h found and decoded.                 *)
Fresh(p) == hyd[p].fresh
Built(p) == pc[p] = "idle" /\ raised[p] = "none"
LoadedPairs(h) == load(1, << >>, h.file.c, _read_mode(h.fmt), py).data

(* C4: construction loads from the file first and applies the initial      *)
(* entries afterwards: an initial entry whose key was also loaded keeps    *)
(* its own value in the constructed Store.                                 *)
C4_InitialEntriesOverride ==
  \A p \in active :
    (Fresh(p) /\ Built(p) /\ hyd[p].read) =>
      \A i \in 1..Len(hyd[p].args) :
        HasKey(LoadedPairs(hyd[p]), hyd[p].args[i][1]) =>
          Lookup(data[p], hyd[p].args[i][1]) = hyd[p].args[i][2]

(* c is what sync() of a Store with format f writes: f's own decoding of  *)
(* c, dumped again by f, is c.                                             *)
Decoded(f, c) == Update(<< >>, DriverLoad(f, c, "r", 2).pairs)
WrittenBy(f, c) ==
  /\ DriverLoad(f, c, "r", 2).ok
  /\ DriverDump(f, Decoded(f, c)) = [ok |-> TRUE, toks |-> c]

(* C5: a file written in registered format X is hydrated by a Store        *)
(* constructed with any other registered format Y: construction succeeds   *)
(* and every written entry is present.                                     *)
C5_CrossFormatHydration ==
  \A p \in active : \A X \in Registered :
    (/\ Fresh(p) /\ hyd[p].fl # "n" /\ hyd[p].file.ex
     /\ hyd[p].fmt \in Registered \ {X}
     /\ WrittenBy(X, hyd[p].file.c)) =>
      /\ Built(p)
      /\ \A e \in AsMap(Decoded(X, hyd[p].file.c)) :
           HasKey(data[p], e[1]) /\ Lookup(data[p], e[1]) = e[2]

(* Ordered mappings over Keys with JSON-safe values.                       *)
JSONSafeVals == {Str("a"), Num("1")}
JSONSafeMaps ==
  {<< >>}
  \cup {<<<<k, v>>>> : k \in Keys, v \in JSONSafeVals}
  \cup {m \in {<<<<k1, v1>>, <<k2, v2>>>> :
                  k1 \in Keys, k2 \in Keys,
                  v1 \in JSONSafeVals, v2 \in JSONSafeVals} : m[1][1] # m[2][1]}

(* C6: when the target is the JSON Driver's dump of a JSON-safe mapping m, *)
(* a Store constructed on it in create mode without initial entries, under *)
(* any format setting, holds exactly the entries of m.                     *)
C6_JSONRoundTrip ==
  \A p \in active : \A m \in JSONSafeMaps :
    (/\ Fresh(p) /\ hyd[p].fl = "c" /\ hyd[p].args = << >>
     /\ hyd[p].file = [ex |-> TRUE, c |-> JSONDriver_dump(m).toks]) =>
      Built(p) /\ AsMap(data[p]) = AsMap(m)

(* C6 witness: on Python 3 a Store set to pickle (binary read mode) has    *)
(* hydrated a two-entry JSON file holding a string and a number.           *)
C6_Witness ==
  \E p \in active :
    /\ Fresh(p) /\ Built(p) /\ hyd[p].fl = "c" /\ hyd[p].args = << >>
    /\ hyd[p].fmt = "pickle" /\ py = 3
    /\ Len(data[p]) = 2 /\ data[p] \in JSONSafeMaps
    /\ \E i \in 1..2 : data[p][i][2].ty = "num"
    /\ hyd[p].file = [ex |-> TRUE, c |-> JSONDriver_dump(data[p]).toks]

(* C7: no operation on a Store opened read-only changes the directory or   *)
(* any file: mutations, sync(), close() and scope exit leave the target    *)
(* and the temp file as they were.                                         *)
C7_ReadOnlyNoWrite ==
  [][\A p \in active :
       (active = {p} /\ pc[p] = "idle" /\ flag[p] = "r") =>
         (dir' = dir /\ ino' = ino)]_vars

(* C7 witness: a read-only Store was mutated in memory, then sync()        *)
(* returned, and the target is not the Store's serialization.              *)
C7_Witness ==
  \E p \in active :
    /\ Returned(p) /\ flag[p] = "r" /\ raised[p] = "none"
    /\ Len(data[p]) = 2 /\ Target # NewVersion(p) /\ Target = pre[p]

(* C8: the format used for writing is the one given at construction        *)
(* whatever the Store has done since, and after a successful sync() of a   *)
(* read-write Store the target is that Driver's serialization of the       *)
(* Store's current contents.                                               *)
C8_WriteFormatFixed ==
  \A p \in active :
    /\ pc[p] # "new" => format[p] = hyd[p].fmt
    /\ (Returned(p) /\ raised[p] = "none" /\ flag[p] # "r") =>
         /\ hyd[p].fmt \in Registered
         /\ Target = [ex |-> TRUE, c |-> DriverDump(hyd[p].fmt, data[p]).toks]

(* C8 witness: a Store set to json, hydrated from a csv file, has synced   *)
(* the same entries in JSON.                                               *)
C8_Witness ==
  \E p \in active :
    /\ Returned(p) /\ raised[p] = "none" /\ flag[p] = "c"
    /\ hyd[p].fmt = "json" /\ data[p] # << >>
    /\ pre[p] = [ex |-> TRUE, c |-> CSVDriver_dump(data[p]).toks]
    /\ Target = [ex |-> TRUE, c |-> JSONDriver_dump(data[p]).toks]

(* The Drivers that decode what the construction read.                     *)
Decoders(h) ==
  {i \in 1..Len(DRIVERS) :
     DriverLoad(DRIVERS[i], h.file.c, _read_mode(h.fmt), py).ok}

(* C9: a construction that read the file fails, with ValueError, exactly   *)
(* when every registered Driver fails on it; while some Driver decodes the *)
(* file no Driver's failure reaches the caller.                            *)
C9_FailsOnlyOnExhaustion ==
  \A p \in active :
    (Fresh(p) /\ hyd[p].read) =>
      /\ Decoders(hyd[p]) = {} => (pc[p] = "new" /\ raised[p] = "ValueError")
      /\ Decoders(hyd[p]) # {} => Built(p)

(* C9 witness: all three Drivers were tried on an existing readable file   *)
(* and the construction failed.                                            *)
C9_Witness ==
  \E p \in active :
    /\ Fresh(p) /\ hyd[p].read /\ hyd[p].tried = Len(DRIVERS)
    /\ raised[p] = "ValueError" /\ pc[p] = "new"

(* C10: sync() of a read-write Store whose format is not registered raises *)
(* NotImplementedError; the target is unchanged and no temp file remains.  *)
C10_UnknownFormat ==
  \A p \in active :
    (Returned(p) /\ flag[p] # "r" /\ format[p] \notin Registered) =>
      /\ raised[p] = "NotImplementedError"
      /\ Target = pre[p]
      /\ ~Temp.ex

(* C10 witness: such a sync() has returned over an existing target.        *)
C10_Witness ==
  \E p \in active :
    /\ Returned(p) /\ flag[p] = "c" /\ format[p] = "xml"
    /\ raised[p] = "NotImplementedError" /\ pre[p].ex /\ data[p] # << >>

(* A sync() that got past the read-only test has returned to its caller;  *)
(* call tells whether its open of the temp file returned or raised.        *)
Produced(p) ==
  pc[p] = "idle" /\ call[p] \in {"sync", "open"} /\ flag[p] # "r"

(* C11: the error that ended the production of the temp file, the error    *)
(* of open(filename + '.tmp') or the error of the serialization, is the    *)
(* error sync() raises to its caller.                                      *)
C11_TempFileErrorReraised ==
  \A p \in active :
    Produced(p) =>
      /\ call[p] = "open" => raised[p] = "OSError"
      /\ (call[p] = "sync" /\ ~Out(p).ok) => raised[p] = Out(p).exc

(* The sync() run by __exit__ raised: its open of the temp file or the     *)
(* serialization failed.                                                   *)
SyncRaised(p) ==
  flag[p] # "r" /\ (call[p] = "open" \/ ~Out(p).ok)

SyncErrors == {"TypeError", "NotImplementedError", "OSError",
               "FileNotFoundError"}

(* C12 as stated: once control has left the with statement, sync() ran     *)
(* exactly once in __exit__, and when the body raised, the exception of    *)
(* the body is what the caller gets.                                       *)
C12_ScopeExitOriginal ==
  \A p \in active :
    Left(p) =>
      /\ nsync[p] = 1
      /\ exc[p] # "none" => raised[p] = exc[p]

(* C12, amended: once control has left the with statement, sync() ran      *)
(* exactly once in __exit__; when the body raised, the caller gets the     *)
(* exception of the body if that sync() returned, and the error raised     *)
(* by that sync() if it raised.                                            *)
C12_ScopeExit ==
  \A p \in active :
    Left(p) =>
      /\ nsync[p] = 1
      /\ (exc[p] # "none" /\ ~SyncRaised(p)) => raised[p] = exc[p]
      /\ (exc[p] # "none" /\ SyncRaised(p)) => raised[p] \in SyncErrors
      /\ (exc[p] = "none" /\ ~SyncRaised(p)) => raised[p] = "none"

C12_Witness ==
  \E p \in active :
    /\ Left(p) /\ exc[p] = "BodyError" /\ raised[p] = "BodyError"
    /\ nsync[p] = 1 /\ flag[p] = "c" /\ data[p] # << >>
    /\ Target = NewVersion(p) /\ ~Temp.ex

(* C13: when the sync() calls of two processes with Stores on the same    *)
(* path have both returned (both Stores serializable), neither call        *)
(* raised and the target file is the complete serialization of one of      *)
(* the two Stores, the one that renamed last.                              *)
C13_LastWriterWins ==
  (active = Procs /\ \A p \in Procs : Returned(p) /\ Out(p).ok) =>
    /\ \A p \in Procs : raised[p] = "none"
    /\ \E p \in Procs : Target = NewVersion(p)

(* C14: a Store constructed with flag 'n' on a path that holds a           *)
(* non-empty file is built from its initial entries alone, whatever the    *)
(* file holds: the construction succeeds, reads nothing, tries no Driver   *)
(* and leaves the file as it found it.                                     *)
C14_ForceNew ==
  \A p \in active :
    (Fresh(p) /\ hyd[p].fl = "n" /\ hyd[p].file.ex /\ hyd[p].file.c # << >>) =>
      /\ Built(p)
      /\ flag[p] = "n"
      /\ data[p] = Update(<< >>, hyd[p].args)
      /\ ~hyd[p].read /\ hyd[p].tried = 0 /\ hyd[p].by = "none"
      /\ Target = hyd[p].file

C14_Witness ==
  \E p \in active :
    /\ Fresh(p) /\ Built(p) /\ hyd[p].fl = "n"
    /\ hyd[p].file = [ex |-> TRUE, c |-> JunkFile]
    /\ Decoders(hyd[p]) = {}
    /\ hyd[p].args = << >> /\ data[p] = << >>
    /\ Target.c = JunkFile

(* The entries other than key are the same in d and e.                    *)
SameElsewhere(d, e, key) ==
  \A k \in Keys \ {key} :
    /\ HasKey(d, k) <=> HasKey(e, k)
    /\ HasKey(d, k) => Lookup(d, k) = Lookup(e, k)

(* C15: a mapping operation on a Store changes neither the target file     *)
(* nor filename + '.tmp' (directory and file contents stay as they are)    *)
(* and its effect is what the next read of the Store returns: after a set  *)
(* the key maps to the value set, after a delete the key is gone, and      *)
(* the other entries are as before.                                        *)
C15_MappingOpsFrame ==
  [][\A p \in active :
       /\ \A key \in Keys, v \in Vals :
            Set(p, key, v) =>
              /\ dir' = dir /\ ino' = ino
              /\ HasKey(data'[p], key) /\ Lookup(data'[p], key) = v
              /\ SameElsewhere(data[p], data'[p], key)
       /\ \A key \in Keys :
            Del(p, key) =>
              /\ dir' = dir /\ ino' = ino
              /\ ~HasKey(data'[p], key)
              /\ SameElsewhere(data[p], data'[p], key)]_vars

(* A Store whose entries were changed after the last call that touched     *)
(* the disk, on a path whose file holds something else.                    *)
C15_Witness ==
  \E p \in active :
    /\ pc[p] = "idle" /\ call[p] = "none" /\ flag[p] = "c"
    /\ Len(data[p]) = 2 /\ Lookup(data[p], "k2") = Str("a")
    /\ Target.ex /\ Out(p).ok /\ Target # NewVersion(p)
    /\ Temp.ex

(* The entries of pairs, merged in order, are all in d.                   *)
Holds(d, pairs) ==
  LET m == Update(<< >>, pairs)
  IN \A i \in 1..Len(m) : HasKey(d, m[i][1]) /\ Lookup(d, m[i][1]) = m[i][2]

(* The result of Driver f on the whole content of the file found.          *)
Whole(f, h) == DriverLoad(f, h.file.c, _read_mode(h.fmt), py)

RegistrationOrder == <<"pickle", "json", "csv">>
FirstInOrder(h) ==
  LET S == {i \in 1..3 : Whole(RegistrationOrder[i], h).ok}
  IN IF S = {} THEN 0 ELSE CHOOSE i \in S : \A j \in S : i <= j

(* C16: a construction that read a file some Driver decodes is done by     *)
(* the first of pickle, json, csv (in this order) that decodes it: that    *)
(* Driver is the one that succeeded, no Driver after it was tried, and     *)
(* the entries it decoded are in the Store.                                *)
C16_FirstDriverWins ==
  \A p \in active :
    (Fresh(p) /\ hyd[p].read /\ FirstInOrder(hyd[p]) # 0) =>
      LET first == FirstInOrder(hyd[p])
      IN /\ Built(p)
         /\ hyd[p].by = RegistrationOrder[first]
         /\ hyd[p].tried = first
         /\ Holds(data[p], Whole(RegistrationOrder[first], hyd[p]).pairs)

(* A file that json and csv both decode, hydrated by json.                 *)
C16_Witness ==
  \E p \in active :
    /\ Fresh(p) /\ Built(p) /\ hyd[p].read
    /\ Whole("json", hyd[p]).ok /\ Whole("csv", hyd[p]).ok
    /\ ~Whole("pickle", hyd[p]).ok
    /\ hyd[p].by = "json" /\ hyd[p].tried = 2
    /\ Len(data[p]) = 2

(* C17: a Driver tried after another Driver's failed attempt works on the  *)
(* whole content of the file, from offset 0: when it decodes the whole     *)
(* content it is the Driver that succeeds and the entries of the whole     *)
(* content are in the Store, and it succeeds only if it decodes the        *)
(* whole content.                                                          *)
C17_LoadFromOffsetZero ==
  \A p \in active :
    (Fresh(p) /\ hyd[p].read) =>
      \A i \in 2..Len(DRIVERS) :
        /\ (hyd[p].tried >= i /\ Whole(DRIVERS[i], hyd[p]).ok) =>
             /\ Built(p) /\ hyd[p].by = DRIVERS[i] /\ hyd[p].tried = i
             /\ Holds(data[p], Whole(DRIVERS[i], hyd[p]).pairs)
        /\ hyd[p].by = DRIVERS[i] => Whole(DRIVERS[i], hyd[p]).ok

(* A two-row csv file hydrated by csv after pickle.load stopped at the     *)
(* first byte and json.load read the stream to its end.                    *)
C17_Witness ==
  \E p \in active :
    /\ Fresh(p) /\ Built(p) /\ hyd[p].read
    /\ hyd[p].by = "csv" /\ hyd[p].tried = 3
    /\ Consumed("pickle", hyd[p].file.c) = 1
    /\ Consumed("json", hyd[p].file.c) = Len(hyd[p].file.c)
    /\ hyd[p].args = << >>
    /\ Len(data[p]) = 2 /\ hyd[p].file.c = CSVRows(data[p])

KeysOf(pairs) == {pairs[i][1] : i \in 1..Len(pairs)}

(* C18: after a successful construction that read the file, the keys of    *)
(* the Store are the keys of the initial entries and of the pairs decoded  *)
(* by the Driver that succeeded, and no others; a key not decoded by that  *)
(* Driver has the value of its initial entry.                              *)
C18_FailedAttemptLeavesNothing ==
  \A p \in active :
    (Fresh(p) /\ Built(p) /\ hyd[p].read) =>
      LET decoded == Whole(hyd[p].by, hyd[p]).pairs
          initial == Update(<< >>, hyd[p].args)
      IN /\ KeysOf(data[p]) = KeysOf(initial) \cup KeysOf(decoded)
         /\ Holds(data[p], decoded)
         /\ \A k \in KeysOf(initial) \ KeysOf(decoded) :
              Lookup(data[p], k) = Lookup(initial, k)

(* A step of a sync() call of process p: its first step (also the one     *)
(* that returns at once for flag 'r') or a step of its temp-file work.     *)
SyncStep(p) ==
  \/ InSync(p)
  \/ InSync(p)'
  \/ pc[p] = "idle" /\ pc'[p] = "idle" /\ call'[p] = "sync"

(* C19: no step of sync() changes the Store's entries, flag, mode or       *)
(* format; after a sync() that returned normally on a read-write Store no  *)
(* temp file remains; and when the file before that sync() already was     *)
(* the serialization of the Store (as it is after a successful sync()      *)
(* with no mutation since), the target has the same content afterwards.    *)
C19_SyncIdempotent ==
  /\ [][\A p \in active :
          SyncStep(p) =>
            /\ data'[p] = data[p] /\ flag'[p] = flag[p]
            /\ mode'[p] = mode[p] /\ format'[p] = format[p]]_vars
  /\ [](\A p \in active :
          (Returned(p) /\ raised[p] = "none" /\ flag[p] # "r") =>
            /\ ~Temp.ex
            /\ pre[p] = NewVersion(p) => Target = pre[p])

C19_Witness ==
  \E p \in active :
    /\ Returned(p) /\ raised[p] = "none" /\ flag[p] = "c"
    /\ ~hyd[p].fresh /\ Len(data[p]) = 2
    /\ pre[p].ex /\ pre[p] = NewVersion(p)
    /\ Target = pre[p] /\ ~Temp.ex

(* C20: for any number n of field names, prepare_fields returns (keys,    *)
(* values) with both of length n + 1: keys is the field names followed by  *)
(* 'address', values the field values in the same order followed by the    *)
(* instance's address, '' when the instance has none.                      *)
C20_PrepareFields ==
  info.st = "done" =>
    LET n == Len(info.fields)
    IN /\ info.out.ok
       /\ Len(info.out.keys) = n + 1 /\ Len(info.out.values) = n + 1
       /\ info.out.keys = info.fields \o <<"address">>
       /\ \A i \in 1..n : info.out.values[i] = info.attrs[info.fields[i]]
       /\ info.out.values[n + 1] =
            (IF info.instance.has THEN info.instance.address ELSE "")

====
